---- MODULE Spec2Model ----
(***************************************************************************)
(* Model of DelpherWikitextReplacements/addDelpherURLsToWikitext-          *)
(* InternetArchiveFiles.py: the spreadsheet-driven batch run that fetches  *)
(* a Commons file page, rewrites the old three-line |source= block and     *)
(* saves it, recording one status per record and checkpointing the status  *)
(* map to the Excel sheet.                                                 *)
(*                                                                         *)
(* Strings are sequences of one-character strings.  Wikitext is a sequence *)
(* of lexical tokens [t |-> kind, v |-> payload]: the kinds are exactly    *)
(* the pieces OLD_BLOCK_RE tells apart.                                    *)
(*   HDR   "|source="  (\|\s*source\s*=)                                   *)
(*   COL   ":"                                                             *)
(*   IAT   "{{Internet Archive link|<v>}}", v the captured identifier      *)
(*   URL   an archive.org direct-download URL, v its characters            *)
(*   RES   "https://resolver.kb.nl/resolve?urn=<v>"                        *)
(*   RESPDF the same followed by ":mpeg21:pdf"                             *)
(*   SP    a blank, NL a line break, TXT any other text                    *)
(***************************************************************************)
EXTENDS Integers, Sequences, FiniteSets, TLC

(***************************************************************************)
(* Bounds of the model.                                                    *)
(***************************************************************************)
MaxRecords == 3
MaxCheckpoint == 2
MaxTimestamp == 2

(***************************************************************************)
(* Status labels.                                                          *)
(***************************************************************************)
STATUS_PROCESSED == "Successfully processed"
STATUS_SKIPPED_NO_OLD == "Skipped - no old pattern found"
STATUS_ERROR == "Skipped - other error"
Statuses == {STATUS_PROCESSED, STATUS_SKIPPED_NO_OLD, STATUS_ERROR}

(***************************************************************************)
(* Characters and str.strip().                                             *)
(***************************************************************************)
Digits == {"0", "1"}
Letters == {"d", "m"}
Alnum == Letters \cup Digits
Blank == {" ", "\n"}

RECURSIVE LStrip(_)
LStrip(s) ==
    IF s # <<>> /\ Head(s) \in Blank THEN LStrip(Tail(s)) ELSE s

RECURSIVE RStrip(_)
RStrip(s) ==
    IF s # <<>> /\ s[Len(s)] \in Blank THEN RStrip(SubSeq(s, 1, Len(s) - 1)) ELSE s

Strip(s) == RStrip(LStrip(s))

(***************************************************************************)
(* URN_FROM_IA_RE and derive_delpher_urn.  A failure (SystemExit) is the   *)
(* result [ok |-> FALSE, urn |-> <<>>].                                    *)
(***************************************************************************)
\* first position >= i of s whose character is not in set cs (Len(s)+1 if none)
RECURSIVE SkipChars(_, _, _)
SkipChars(s, i, cs) ==
    IF i <= Len(s) /\ s[i] \in cs THEN SkipChars(s, i + 1, cs) ELSE i

\* faulty variant: the number may hold letters, ^([A-Za-z0-9]+)_([A-Za-z0-9]+)(?:_.*)?$
URN_FROM_IA_RE_alnum(s) ==
    LET p == SkipChars(s, 1, Alnum)
        q == SkipChars(s, p + 1, Alnum)
        matched == /\ p >= 2
                   /\ p <= Len(s)
                   /\ s[p] = "_"
                   /\ q > p + 1
                   /\ \/ q = Len(s) + 1
                      \/ /\ s[q] = "_"
                         /\ \A k \in (q + 1)..Len(s) : s[k] # "\n"
    IN  IF matched
        THEN [ok |-> TRUE, prefix |-> SubSeq(s, 1, p - 1), number |-> SubSeq(s, p + 1, q - 1)]
        ELSE [ok |-> FALSE, prefix |-> <<>>, number |-> <<>>]

\* ^(?P<prefix>[A-Za-z0-9]+)_(?P<number>\d+)(?:_.*)?$
URN_FROM_IA_RE(s) ==
    LET p == SkipChars(s, 1, Alnum)
        q == SkipChars(s, p + 1, Digits)
        matched == /\ p >= 2
                   /\ p <= Len(s)
                   /\ s[p] = "_"
                   /\ q > p + 1
                   /\ \/ q = Len(s) + 1
                      \/ /\ s[q] = "_"
                         /\ \A k \in (q + 1)..Len(s) : s[k] # "\n"
    IN  IF matched
        THEN [ok |-> TRUE, prefix |-> SubSeq(s, 1, p - 1), number |-> SubSeq(s, p + 1, q - 1)]
        ELSE [ok |-> FALSE, prefix |-> <<>>, number |-> <<>>]

\* faulty variant: the number is read as an integer, its leading zeros are lost
derive_delpher_urn_int(ia_id) ==
    LET s == Strip(ia_id)
        m == URN_FROM_IA_RE(s)
        n == SkipChars(m.number, 1, {"0"})
    IN  IF s = <<>> \/ ~m.ok
        THEN [ok |-> FALSE, urn |-> <<>>]
        ELSE [ok |-> TRUE, urn |-> m.prefix \o <<":">> \o SubSeq(m.number, n, Len(m.number))]

derive_delpher_urn(ia_id) ==
    LET s == Strip(ia_id)
        m == URN_FROM_IA_RE(s)
    IN  IF s = <<>> \/ ~m.ok
        THEN [ok |-> FALSE, urn |-> <<>>]
        ELSE [ok |-> TRUE, urn |-> m.prefix \o <<":">> \o m.number]

(***************************************************************************)
(* Tokens.                                                                 *)
(***************************************************************************)
Tok(t, v) == [t |-> t, v |-> v]
HDR == Tok("HDR", <<>>)
COL == Tok("COL", <<>>)
SP == Tok("SP", <<>>)
NL == Tok("NL", <<>>)
TXT(w) == Tok("TXT", <<w>>)
IAT(id) == Tok("IAT", id)
URL(u) == Tok("URL", u)

IsWs(tok) == tok.t \in {"SP", "NL"}

\* first position >= i of text that holds no whitespace token (Len(text)+1 if none)
RECURSIVE SkipWs(_, _)
SkipWs(text, i) ==
    IF i <= Len(text) /\ IsWs(text[i]) THEN SkipWs(text, i + 1) ELSE i

\* the positions in i..j-1 holding a line break
NLs(text, i, j) == {k \in i..(j - 1) : text[k].t = "NL"}

SetMax(S) == CHOOSE x \in S : \A y \in S : y <= x

(***************************************************************************)
(* build_new_source_block.                                                 *)
(***************************************************************************)
PathChars == Alnum \cup {"_", "-", ".", "/", ".pdf"}

\* ^https?://archive\.org/download/[\w\-\./]+?\.pdf$ ; "ARC" stands for the
\* scheme, host and "/download/", ".pdf" for the extension
PdfUrlOk(u) ==
    /\ Len(u) >= 3
    /\ u[1] = "ARC"
    /\ u[Len(u)] = ".pdf"
    /\ \A k \in 2..(Len(u) - 1) : u[k] \in PathChars

\* faulty variant: the PDF URL is taken as it comes
build_new_source_block_any_url(ia_id, pdf_url) ==
    LET s_pdf == Strip(pdf_url)
        d == derive_delpher_urn(ia_id)
    IN  IF Strip(ia_id) = <<>> \/ s_pdf = <<>> \/ ~d.ok
        THEN [ok |-> FALSE, block |-> <<>>]
        ELSE [ok |-> TRUE,
              block |-> << TXT("Internet Archive"), NL,
                           TXT("* Website"), COL, SP, IAT(ia_id), NL,
                           TXT("* Direct download"), COL, SP, URL(s_pdf), NL,
                           TXT("Delpher"), NL,
                           TXT("* Website"), COL, SP, Tok("RES", d.urn), NL,
                           TXT("* Direct download"), COL, SP, Tok("RESPDF", d.urn) >>]

\* faulty variant: the Internet Archive lines keep the old ":" layout
build_new_source_block_colon(ia_id, pdf_url) ==
    LET s_pdf == Strip(pdf_url)
        d == derive_delpher_urn(ia_id)
    IN  IF Strip(ia_id) = <<>> \/ s_pdf = <<>> \/ ~PdfUrlOk(s_pdf) \/ ~d.ok
        THEN [ok |-> FALSE, block |-> <<>>]
        ELSE [ok |-> TRUE,
              block |-> << COL, SP, IAT(ia_id), NL,
                           COL, SP, URL(s_pdf), NL,
                           TXT("Delpher"), NL,
                           TXT("* Website"), COL, SP, Tok("RES", d.urn), NL,
                           TXT("* Direct download"), COL, SP, Tok("RESPDF", d.urn) >>]

build_new_source_block(ia_id, pdf_url) ==
    LET s_pdf == Strip(pdf_url)
        d == derive_delpher_urn(ia_id)
    IN  IF Strip(ia_id) = <<>> \/ s_pdf = <<>> \/ ~PdfUrlOk(s_pdf) \/ ~d.ok
        THEN [ok |-> FALSE, block |-> <<>>]
        ELSE [ok |-> TRUE,
              block |-> << TXT("Internet Archive"), NL,
                           TXT("* Website"), COL, SP, IAT(ia_id), NL,
                           TXT("* Direct download"), COL, SP, URL(s_pdf), NL,
                           TXT("Delpher"), NL,
                           TXT("* Website"), COL, SP, Tok("RES", d.urn), NL,
                           TXT("* Direct download"), COL, SP, Tok("RESPDF", d.urn) >>]

(***************************************************************************)
(* OLD_BLOCK_RE on tokens.  A match starting at the HDR token at i:        *)
(*   HDR ws* NL | ws* COL ws* IAT ws* NL | ws* COL ws* URL ws* NL?         *)
(* \s also matches line breaks, so each ws* is a run of SP and NL tokens;  *)
(* the prefix group ends at the last line break of the first run, and the  *)
(* trailing \s* takes every whitespace token after the URL.                *)
(* st is the first position of the match, en the first position after it.  *)
(***************************************************************************)
NoMatch == [ok |-> FALSE, st |-> 0, en |-> 0, prefixEnd |-> 0, iaid |-> <<>>, pdf |-> <<>>]

OldBlockAt(text, i) ==
    LET a == SkipWs(text, i + 1)
        b == SkipWs(text, a + 1)
        c == SkipWs(text, b + 1)
        d == SkipWs(text, c + 1)
        e == SkipWs(text, d + 1)
    IN  IF /\ i <= Len(text) /\ text[i].t = "HDR"
           /\ NLs(text, i + 1, a) # {}
           /\ a <= Len(text) /\ text[a].t = "COL"
           /\ b <= Len(text) /\ text[b].t = "IAT"
           /\ NLs(text, b + 1, c) # {}
           /\ c <= Len(text) /\ text[c].t = "COL"
           /\ d <= Len(text) /\ text[d].t = "URL"
        THEN [ok |-> TRUE, st |-> i, en |-> e,
              prefixEnd |-> SetMax(NLs(text, i + 1, a)),
              iaid |-> text[b].v, pdf |-> text[d].v]
        ELSE NoMatch

\* OLD_BLOCK_RE.finditer(text): the non-overlapping matches, left to right
RECURSIVE FindIter(_, _)
FindIter(text, i) ==
    IF i > Len(text) THEN <<>>
    ELSE LET m == OldBlockAt(text, i)
         IN  IF m.ok THEN <<m>> \o FindIter(text, m.en)
             ELSE FindIter(text, i + 1)

OLD_BLOCK_RE(text) == FindIter(text, 1)

(***************************************************************************)
(* transform_wikitext: [ok, text]; ok = FALSE is SystemExit.               *)
(***************************************************************************)
\* the single-match branch: derive the URN, build the block, splice it in
ReplaceMatch(text, m) ==
    LET prefix == SubSeq(text, m.st, m.prefixEnd)
        iaid == Strip(m.iaid)
        pdf == Strip(m.pdf)
        urn == derive_delpher_urn(iaid)
        new_block == build_new_source_block(iaid, pdf)
    IN  IF ~urn.ok \/ ~new_block.ok THEN [ok |-> FALSE, text |-> <<>>]
        ELSE [ok |-> TRUE,
              text |-> SubSeq(text, 1, m.st - 1) \o prefix \o new_block.block
                       \o <<NL>> \o SubSeq(text, m.en, Len(text))]

\* faulty variant: a page without the old block is an error
transform_wikitext_zero_fails(text) ==
    LET matches == OLD_BLOCK_RE(text)
    IN  IF Len(matches) # 1 THEN [ok |-> FALSE, text |-> <<>>]
        ELSE ReplaceMatch(text, matches[1])

\* faulty variant: of several old blocks the first one is replaced
transform_wikitext_first(text) ==
    LET matches == OLD_BLOCK_RE(text)
    IN  IF Len(matches) = 0 THEN [ok |-> TRUE, text |-> text]
        ELSE ReplaceMatch(text, matches[1])

transform_wikitext(text) ==
    LET matches == OLD_BLOCK_RE(text)
    IN  IF Len(matches) = 0 THEN [ok |-> TRUE, text |-> text]
        ELSE IF Len(matches) > 1 THEN [ok |-> FALSE, text |-> <<>>]
        ELSE ReplaceMatch(text, matches[1])

(***************************************************************************)
(* Page bodies and API responses the remote wiki can answer with.          *)
(***************************************************************************)
GoodId == <<"d", "_", "0", "1", "_", "m">>
BadId == <<"d", "d">>
GoodPdf == <<"ARC", "d", "_", "0", "1", ".pdf">>

OldBlock(id) == <<HDR, SP, NL, COL, IAT(id), NL, COL, URL(GoodPdf), NL>>

PageNoOld == <<TXT("{{Information"), NL, HDR, SP, TXT("own work"), NL>>
PageOneOld == <<TXT("{{Information"), NL>> \o OldBlock(GoodId) \o <<TXT("}}"), NL>>
PageTwoOld == OldBlock(GoodId) \o <<TXT("x"), NL>> \o OldBlock(GoodId)
PageBadId == OldBlock(BadId)
PageNew == transform_wikitext(PageOneOld).text

SamplePages == {PageNoOld, PageOneOld, PageTwoOld, PageBadId, PageNew}

\* what site.api("query", ...) answers: an exception, or a response whose shape
\* may lack the page, the revisions, the content (text = <<>>) or the
\* timestamp (ts = 0)
FetchFailKinds == {"apierror", "transport", "noquery", "nopages", "missing", "norevisions"}

FetchResponses ==
    {[kind |-> k, text |-> <<>>, ts |-> 0] : k \in FetchFailKinds}
    \cup {[kind |-> "ok", text |-> t, ts |-> s] :
              t \in SamplePages \cup {<<>>}, s \in 0..MaxTimestamp}

\* faulty variant: a revision without timestamp is returned as fetched
fetch_wikitext_by_pageid_no_token(resp) ==
    IF resp.kind = "ok" /\ resp.text # <<>>
    THEN [ok |-> TRUE, text |-> resp.text, basetimestamp |-> resp.ts]
    ELSE [ok |-> FALSE, text |-> <<>>, basetimestamp |-> 0]

\* fetch_wikitext_by_pageid on a response: ok = FALSE is SystemExit
fetch_wikitext_by_pageid(resp) ==
    IF resp.kind = "ok" /\ resp.text # <<>> /\ resp.ts # 0
    THEN [ok |-> TRUE, text |-> resp.text, basetimestamp |-> resp.ts]
    ELSE [ok |-> FALSE, text |-> <<>>, basetimestamp |-> 0]

\* what site.api(action="edit", ...) answers: an APIError with an auth/token
\* code ("auth"), another APIError, another exception, or a response
EditOutcomes == {"Success", "nochange", "auth", "apierror", "transport", "error", "unexpected"}
EditOk == {"Success", "nochange"}

\* what write_status_to_excel ends with: return, SystemExit, another exception
WriteOutcomes == {"ok", "exit", "exception"}

(***************************************************************************)
(* write_status_to_excel on the sheet: rows [pageid, status].              *)
(***************************************************************************)
\* faulty variant: the rows that received a status are written once more below
\* the sheet
write_status_to_excel_append(rows, status) ==
    IF DOMAIN status = {} THEN rows
    ELSE LET updated == [i \in DOMAIN rows |->
                            IF rows[i].pageid \in DOMAIN status
                            THEN [rows[i] EXCEPT !.status = status[rows[i].pageid]]
                            ELSE rows[i]]
             Matched(row) == row.pageid \in DOMAIN status
         IN  updated \o SelectSeq(updated, Matched)

\* faulty variant: the row is found by its position in the sheet
write_status_to_excel_by_position(rows, status) ==
    IF DOMAIN status = {} THEN rows
    ELSE [i \in DOMAIN rows |->
             IF i \in DOMAIN status
             THEN [rows[i] EXCEPT !.status = status[i]]
             ELSE rows[i]]

\* faulty variant: the status column is emptied before the statuses are set
write_status_to_excel_reset(rows, status) ==
    IF DOMAIN status = {} THEN rows
    ELSE [i \in DOMAIN rows |->
             IF rows[i].pageid \in DOMAIN status
             THEN [rows[i] EXCEPT !.status = status[rows[i].pageid]]
             ELSE [rows[i] EXCEPT !.status = ""]]

\* faulty variant: only the successfully processed pages are written
write_status_to_excel_processed_only(rows, status) ==
    IF DOMAIN status = {} THEN rows
    ELSE [i \in DOMAIN rows |->
             IF rows[i].pageid \in DOMAIN status
                /\ status[rows[i].pageid] = STATUS_PROCESSED
             THEN [rows[i] EXCEPT !.status = status[rows[i].pageid]]
             ELSE rows[i]]

\* (a status column that is missing is created empty, which the rows here show
\* as the status ""; the sheet is read, changed and written back as a whole)
write_status_to_excel(rows, status) ==
    IF DOMAIN status = {} THEN rows
    ELSE [i \in DOMAIN rows |->
             IF rows[i].pageid \in DOMAIN status
             THEN [rows[i] EXCEPT !.status = status[rows[i].pageid]]
             ELSE rows[i]]

(***************************************************************************)
(* State.                                                                  *)
(***************************************************************************)
VARIABLES
    records,                \* the sliced worklist: pageids, in order
    checkpoint_every,       \* CHECKPOINT_EVERY_SUCCESS
    pc,                     \* where main / process_records stands
    idx,                    \* 1-based index of the record in the loop
    status_by_pageid,       \* the status map
    text, base, new_text,   \* locals of the loop body
    successes_since_flush,
    total_successes,
    sheet,                  \* the persisted Excel rows
    calls,                  \* remote calls issued for the current record
    writes,                 \* Status Writer invocations: in the loop, after it
    written,                \* the map handed to the last Status Writer invocation
    write_failed,           \* some Status Writer invocation has failed
    saved,                  \* pageids whose edit the wiki accepted
    arg, ret,               \* a function studied on its own: its argument, its result
    all_files, params       \* get_files of the template script: its locals

vars == <<records, checkpoint_every, pc, idx, status_by_pageid, text, base, new_text,
          successes_since_flush, total_successes, sheet, calls, writes, written,
          write_failed, saved, arg, ret, all_files, params>>

Put(f, k, v) == [x \in DOMAIN f \cup {k} |-> IF x = k THEN v ELSE f[x]]

\* worklists: distinct positive pageids, as get_records returns them; the
\* pageids run against the positions so that the two are never mixed up
Worklists == {[i \in 1..n |-> n + 1 - i] : n \in 1..MaxRecords}

Init ==
    /\ records \in Worklists
    /\ checkpoint_every \in 0..MaxCheckpoint
    /\ pc = "login"
    /\ idx = 1
    /\ status_by_pageid = <<>>
    /\ text = <<>>
    /\ base = 0
    /\ new_text = <<>>
    /\ successes_since_flush = 0
    /\ total_successes = 0
    /\ sheet = [i \in DOMAIN records |-> [pageid |-> records[i], status |-> ""]]
    /\ calls = <<>>
    /\ writes = [loop |-> 0, end |-> 0]
    /\ written = <<>>
    /\ write_failed = FALSE
    /\ saved = {}
    /\ arg = <<>>
    /\ ret = <<>>
    /\ all_files = {}
    /\ params = <<>>

pid == records[idx]
total == Len(records)

\* the loop moves on to the next record, or leaves the loop after the last one
NextPc == IF idx < total THEN "fetch" ELSE "final_flush"
NextIdx == IF idx < total THEN idx + 1 ELSE idx

\* faulty variant: the handler moves on without recording a status
OnRecordErrorUnrecorded ==
    /\ pc' = NextPc
    /\ idx' = NextIdx
    /\ UNCHANGED status_by_pageid

\* faulty variant: the handler records the error and lets the SystemExit end the run
OnRecordErrorAbort ==
    /\ status_by_pageid' = Put(status_by_pageid, pid, STATUS_ERROR)
    /\ pc' = "aborted"
    /\ idx' = idx

\* process_records' handler "except SystemExit / except Exception": the record
\* is given the error status and the loop continues
OnRecordError ==
    /\ status_by_pageid' = Put(status_by_pageid, pid, STATUS_ERROR)
    /\ pc' = NextPc
    /\ idx' = NextIdx

\* an entry of the trace of remote calls
Call(op, res, ts) == [op |-> op, pageid |-> pid, res |-> res, basetimestamp |-> ts]

\* faulty variant: the edit request is sent without the conflict token
EditCallNoBase(res, basetimestamp) == Call("edit", res, 0)

\* _edit_with_token: the edit request, with the conflict token it carries
EditCall(res, basetimestamp) == Call("edit", res, basetimestamp)

(***************************************************************************)
(* main: login.                                                            *)
(***************************************************************************)
Login ==
    /\ pc = "login"
    /\ \E ok \in BOOLEAN : pc' = IF ok THEN "fetch" ELSE "aborted"
    /\ UNCHANGED <<all_files, params, arg, ret, records, checkpoint_every, idx, status_by_pageid, text, base, new_text,
                   successes_since_flush, total_successes, sheet, calls, writes, written,
                   write_failed, saved>>

(***************************************************************************)
(* process_records, loop body: fetch.                                      *)
(***************************************************************************)
Fetch ==
    /\ pc = "fetch"
    /\ \E resp \in FetchResponses :
          LET fetched == fetch_wikitext_by_pageid(resp)
          IN  /\ calls' = <<Call("query", IF fetched.ok THEN "ok" ELSE "fail",
                                  fetched.basetimestamp)>>
              /\ IF fetched.ok
                 THEN /\ text' = fetched.text
                      /\ base' = fetched.basetimestamp
                      /\ pc' = "transform"
                      /\ UNCHANGED <<idx, status_by_pageid>>
                 ELSE /\ OnRecordError
                      /\ UNCHANGED <<text, base>>
    /\ UNCHANGED <<all_files, params, arg, ret, records, checkpoint_every, new_text, successes_since_flush,
                   total_successes, sheet, writes, written, write_failed, saved>>

(***************************************************************************)
(* process_records, loop body: transform and the no-change test.           *)
(***************************************************************************)
Transform ==
    /\ pc = "transform"
    /\ LET t == transform_wikitext(text)
       IN  IF ~t.ok
           THEN /\ OnRecordError
                /\ UNCHANGED new_text
           ELSE /\ new_text' = t.text
                /\ IF t.text = text
                   THEN /\ status_by_pageid' = Put(status_by_pageid, pid, STATUS_SKIPPED_NO_OLD)
                        /\ pc' = NextPc
                        /\ idx' = NextIdx
                   ELSE /\ pc' = "save"
                        /\ UNCHANGED <<idx, status_by_pageid>>
    /\ UNCHANGED <<all_files, params, arg, ret, records, checkpoint_every, text, base, successes_since_flush,
                   total_successes, sheet, calls, writes, written, write_failed, saved>>

(***************************************************************************)
(* save_wikitext_by_pageid returned True: status, counters, checkpoint     *)
(* test.                                                                   *)
(***************************************************************************)
\* faulty variant: the threshold test is off by one
CheckpointDueLate(n) == checkpoint_every > 0 /\ n > checkpoint_every

\* faulty variant: the checkpoint is never taken
CheckpointDueNever(n) == FALSE

CheckpointDue(n) == checkpoint_every > 0 /\ n >= checkpoint_every

\* (open_page_in_browser, which follows, catches its own exceptions and changes
\* nothing kept here; the pause between records changes nothing either)
OnSaved ==
    /\ status_by_pageid' = Put(status_by_pageid, pid, STATUS_PROCESSED)
    /\ total_successes' = total_successes + 1
    /\ successes_since_flush' = successes_since_flush + 1
    /\ saved' = saved \cup {pid}
    /\ IF CheckpointDue(successes_since_flush + 1)
       THEN pc' = "checkpoint" /\ idx' = idx
       ELSE pc' = NextPc /\ idx' = NextIdx

OnSaveFailed ==
    /\ OnRecordError
    /\ UNCHANGED <<total_successes, successes_since_flush, saved>>

(***************************************************************************)
(* save_wikitext_by_pageid: validation, _get_token, first edit attempt.    *)
(***************************************************************************)
\* faulty variant: every APIError is retried
IsAuthErrorAny(r) == r \in {"auth", "apierror"}

\* the APIError names an auth/token code (assertuserfailed, notloggedin, badtoken)
IsAuthError(r) == r = "auth"

Save ==
    /\ pc = "save"
    /\ IF new_text = <<>> \/ base = 0
       THEN /\ OnSaveFailed
            /\ UNCHANGED calls
       ELSE \E tokenOk \in BOOLEAN :
              IF ~tokenOk
              THEN /\ calls' = Append(calls, Call("get_token", "fail", 0))
                   /\ OnSaveFailed
              ELSE \E r \in EditOutcomes :
                     /\ calls' = calls \o <<Call("get_token", "ok", 0), EditCall(r, base)>>
                     /\ IF r \in EditOk THEN OnSaved
                        ELSE IF IsAuthError(r)
                        THEN /\ pc' = "retry"
                             /\ UNCHANGED <<idx, status_by_pageid, total_successes,
                                            successes_since_flush, saved>>
                        ELSE OnSaveFailed
    /\ UNCHANGED <<all_files, params, arg, ret, records, checkpoint_every, text, base, new_text, sheet, writes,
                   written, write_failed>>

(***************************************************************************)
(* save_wikitext_by_pageid: the retry after an auth/token APIError:        *)
(* site.login, _get_token, second edit attempt.                            *)
(***************************************************************************)
RetryPrelude(loginOk, tokenOk) ==
    IF ~loginOk THEN <<Call("login", "fail", 0)>>
    ELSE <<Call("login", "ok", 0), Call("get_token", IF tokenOk THEN "ok" ELSE "fail", 0)>>

Retry ==
    /\ pc = "retry"
    /\ \E loginOk \in BOOLEAN, tokenOk \in BOOLEAN :
          IF ~loginOk \/ ~tokenOk
          THEN /\ calls' = calls \o RetryPrelude(loginOk, tokenOk)
               /\ OnSaveFailed
          ELSE \E r \in EditOutcomes :
                 /\ calls' = calls \o RetryPrelude(loginOk, tokenOk) \o <<EditCall(r, base)>>
                 /\ IF r \in EditOk THEN OnSaved ELSE OnSaveFailed
    /\ UNCHANGED <<all_files, params, arg, ret, records, checkpoint_every, text, base, new_text, sheet, writes,
                   written, write_failed>>

(***************************************************************************)
(* process_records: the checkpoint after a successful save.                *)
(***************************************************************************)
Checkpoint ==
    /\ pc = "checkpoint"
    /\ \E w \in WriteOutcomes :
          /\ sheet' = IF w = "ok" THEN write_status_to_excel(sheet, status_by_pageid) ELSE sheet
          /\ write_failed' = (write_failed \/ w # "ok")
          /\ status_by_pageid' = IF w = "exit"
                                 THEN Put(status_by_pageid, pid, STATUS_ERROR)
                                 ELSE status_by_pageid
    /\ written' = status_by_pageid
    /\ writes' = [writes EXCEPT !.loop = @ + 1]
    /\ successes_since_flush' = 0
    /\ pc' = NextPc
    /\ idx' = NextIdx
    /\ UNCHANGED <<all_files, params, arg, ret, records, checkpoint_every, text, base, new_text, total_successes,
                   calls, saved>>

(***************************************************************************)
(* process_records: the flush after the loop, and the return.              *)
(***************************************************************************)
FinalFlush ==
    /\ pc = "final_flush"
    /\ IF checkpoint_every > 0 /\ successes_since_flush > 0
       THEN \E w \in WriteOutcomes :
              /\ sheet' = IF w = "ok" THEN write_status_to_excel(sheet, status_by_pageid)
                          ELSE sheet
              /\ write_failed' = (write_failed \/ w # "ok")
              /\ written' = status_by_pageid
              /\ writes' = [writes EXCEPT !.end = @ + 1]
              /\ pc' = IF w = "exit" THEN "aborted" ELSE "main_write"
       ELSE /\ pc' = "main_write"
            /\ UNCHANGED <<sheet, write_failed, written, writes>>
    /\ UNCHANGED <<all_files, params, arg, ret, records, checkpoint_every, idx, status_by_pageid, text, base, new_text,
                   successes_since_flush, total_successes, calls, saved>>

(***************************************************************************)
(* main: write the statuses back to Excel.                                 *)
(***************************************************************************)
MainWrite ==
    /\ pc = "main_write"
    /\ \E w \in WriteOutcomes :
          /\ sheet' = IF w = "ok" THEN write_status_to_excel(sheet, status_by_pageid) ELSE sheet
          /\ write_failed' = (write_failed \/ w # "ok")
          /\ pc' = IF w = "ok" THEN "done" ELSE "aborted"
    /\ written' = status_by_pageid
    /\ writes' = [writes EXCEPT !.end = @ + 1]
    /\ UNCHANGED <<all_files, params, arg, ret, records, checkpoint_every, idx, status_by_pageid, text, base, new_text,
                   successes_since_flush, total_successes, calls, saved>>

Next ==
    \/ Login
    \/ Fetch
    \/ Transform
    \/ Save
    \/ Retry
    \/ Checkpoint
    \/ FinalFlush
    \/ MainWrite

Spec == Init /\ [][Next]_vars

(***************************************************************************)
(* Properties.                                                             *)
(***************************************************************************)
RecordIds == {records[i] : i \in 1..total}
Edits(cs) == {k \in DOMAIN cs : cs[k].op = "edit"}
Returned == pc \in {"main_write", "done"}
InLoopBody == pc \in {"fetch", "transform", "save", "retry"}

\* the step is a failed fetch, a failed transform, or a save that ends in failure
FetchFails == pc = "fetch" /\ calls'[1].res = "fail"
TransformFails == pc = "transform" /\ ~transform_wikitext(text).ok
SaveFails ==
    /\ pc \in {"save", "retry"}
    /\ pc' # "retry"
    /\ ~(calls'[Len(calls')].op = "edit" /\ calls'[Len(calls')].res \in EditOk)

\* only the current record's entry of the status map changes, to status st
OnlyThisRecordGets(st) ==
    /\ DOMAIN status_by_pageid' = DOMAIN status_by_pageid \cup {pid}
    /\ status_by_pageid'[pid] = st
    /\ \A p \in DOMAIN status_by_pageid \ {pid} : status_by_pageid'[p] = status_by_pageid[p]

LoopContinues == pc' = NextPc /\ idx' = NextIdx /\ pc' # "aborted"

\* C1: when process_records has returned, the status map has exactly the
\* pageids of the worklist as keys, each with one of the three labels; while
\* the loop body runs on record idx, exactly the earlier records have one.
C1_OneStatusPerRecord ==
    /\ Returned =>
          /\ DOMAIN status_by_pageid = RecordIds
          /\ \A p \in RecordIds : status_by_pageid[p] \in Statuses
    /\ InLoopBody =>
          /\ DOMAIN status_by_pageid = {records[i] : i \in 1..(idx - 1)}
          /\ \A p \in DOMAIN status_by_pageid : status_by_pageid[p] \in Statuses

\* C1 witness: process_records returned a map that holds all three labels.
C1_Witness ==
    /\ pc = "main_write"
    /\ {status_by_pageid[p] : p \in DOMAIN status_by_pageid} = Statuses

\* C2: a step in which fetch, transform or save fails for the current record
\* gives that record the error status and goes on with the next record (or
\* leaves the loop after the last one); it never ends the run.
C2_FailureNeverAborts ==
    [][(FetchFails \/ TransformFails \/ SaveFails)
          => /\ pid \in DOMAIN status_by_pageid'
             /\ status_by_pageid'[pid] = STATUS_ERROR
             /\ LoopContinues
             /\ (idx < total => pc' = "fetch" /\ idx' = idx + 1)]_vars

\* C2 witness: the third record is being saved after the first two failed.
C2_Witness ==
    /\ pc = "save"
    /\ idx = 3
    /\ status_by_pageid[records[1]] = STATUS_ERROR
    /\ status_by_pageid[records[2]] = STATUS_ERROR

\* C3 (as claimed): no call of site.login is among the remote calls issued
\* while a record is saved; the retry is preceded by a token refresh only.
C3_NoLoginDuringSave == \A k \in DOMAIN calls : calls[k].op # "login"

\* C4: a save sends at most two edit requests, the second only after the
\* first failed with an auth/token error; a save that ends in failure gives
\* only its record the error status and the loop continues.
C4_AtMostOneRetry ==
    [][/\ Cardinality(Edits(calls')) <= 2
       /\ \A k \in Edits(calls') :
             (\E j \in Edits(calls') : j < k) =>
                 \A j \in Edits(calls') : j < k => calls'[j].res = "auth"
       /\ SaveFails => OnlyThisRecordGets(STATUS_ERROR) /\ LoopContinues]_vars

\* C4 witness: two edit requests were sent and the second failed as well.
C4_Witness ==
    /\ Cardinality(Edits(calls)) = 2
    /\ calls[Len(calls)].res = "auth"
    /\ status_by_pageid[calls[1].pageid] = STATUS_ERROR

\* C5: every edit request carries the pageid and the (non-empty) conflict
\* token of the successful fetch made for the same record.
C5_EditCarriesFetchedBase ==
    \A k \in Edits(calls) :
        /\ calls[1].op = "query"
        /\ calls[1].res = "ok"
        /\ calls[k].pageid = calls[1].pageid
        /\ calls[k].basetimestamp = calls[1].basetimestamp
        /\ calls[k].basetimestamp # 0

\* C5 witness: the second record's save sent two edit requests, both with the
\* token 1 that the second record's fetch returned.
C5_Witness ==
    /\ idx = 2
    /\ Cardinality(Edits(calls)) = 2
    /\ calls[1].pageid = records[2]
    /\ calls[1].basetimestamp = 1
    /\ base = 1
    /\ pc = "final_flush"

\* saved pages whose 'processed' status, held in the status map, no completed
\* write has persisted
Unpersisted ==
    {p \in saved :
        /\ p \in DOMAIN status_by_pageid
        /\ status_by_pageid[p] = STATUS_PROCESSED
        /\ \A i \in DOMAIN sheet :
              sheet[i].pageid = p => sheet[i].status # STATUS_PROCESSED}

\* C6 (as claimed): with K > 0, the save that brings the counter to K is
\* followed at once, before the next fetch, by a Status Writer invocation with
\* the map accumulated so far and the counter is reset to 0; and no record that
\* ends skipped or errored has advanced the counter or triggered a checkpoint.
C6_CheckpointEveryK ==
    [][/\ (/\ checkpoint_every > 0
           /\ successes_since_flush' = successes_since_flush + 1
           /\ successes_since_flush' >= checkpoint_every)
             => pc' = "checkpoint" /\ idx' = idx
       /\ pc = "checkpoint"
             => /\ written' = status_by_pageid
                /\ writes'.loop = writes.loop + 1
                /\ successes_since_flush' = 0
       /\ pc' = "checkpoint" => checkpoint_every > 0
       /\ \A p \in DOMAIN status_by_pageid' :
             status_by_pageid'[p] # STATUS_PROCESSED => p \notin saved']_vars

\* C7 (as claimed): a complete run with K > 0 and S successful saves invokes
\* the Status Writer S \div K times in the loop and exactly once after it.
C7_OneWriteAtRunEnd ==
    (pc = "done" /\ checkpoint_every > 0)
        => /\ writes.loop = total_successes \div checkpoint_every
           /\ writes.end = 1

\* C7 (amended): a complete run with K > 0 and S successful saves invokes the
\* Status Writer S \div K times in the loop; after the last record it is
\* invoked once by main, and once more before that by process_records' final
\* flush exactly when K does not divide S.
C7_WritesPerRun ==
    (pc = "done" /\ checkpoint_every > 0)
        => /\ writes.loop = total_successes \div checkpoint_every
           /\ writes.end = IF total_successes % checkpoint_every = 0 THEN 1 ELSE 2

\* C7 witness: a complete run with K = 2 and S = 3.
C7_Witness ==
    /\ pc = "done"
    /\ checkpoint_every = 2
    /\ total_successes = 3
    /\ writes = [loop |-> 1, end |-> 2]

C9_ZeroMatchesSkipped ==
    [][(pc = "transform" /\ Len(OLD_BLOCK_RE(text)) = 0)
          => /\ transform_wikitext(text) = [ok |-> TRUE, text |-> text]
             /\ new_text' = text
             /\ OnlyThisRecordGets(STATUS_SKIPPED_NO_OLD)
             /\ LoopContinues
             /\ calls' = calls
             /\ Edits(calls') = {}
             /\ saved' = saved]_vars

\* C9 witness: an already converted page was fetched and skipped.
C9_Witness ==
    /\ pc \in {"fetch", "final_flush"}
    /\ text = PageNew
    /\ new_text = text
    /\ Len(calls) = 1
    /\ calls[1].pageid \in DOMAIN status_by_pageid
    /\ status_by_pageid[calls[1].pageid] = STATUS_SKIPPED_NO_OLD

\* C10: when the fetched body holds two or more matches of the old block,
\* transform fails and yields no text, the record gets the error status, and
\* no edit request is sent for it.
C10_ManyMatchesError ==
    [][(pc = "transform" /\ Len(OLD_BLOCK_RE(text)) >= 2)
          => /\ ~transform_wikitext(text).ok
             /\ new_text' = new_text
             /\ text' = text
             /\ OnlyThisRecordGets(STATUS_ERROR)
             /\ LoopContinues
             /\ calls' = calls
             /\ Edits(calls') = {}
             /\ saved' = saved]_vars

\* C10 witness: a page with two old blocks was fetched and ended as an error.
C10_Witness ==
    /\ pc \in {"fetch", "final_flush"}
    /\ Len(OLD_BLOCK_RE(text)) = 2
    /\ Len(calls) = 1
    /\ calls[1].pageid \in DOMAIN status_by_pageid
    /\ status_by_pageid[calls[1].pageid] = STATUS_ERROR

(***************************************************************************)
(* The functions studied on their own.  A function is called on an         *)
(* argument drawn from a bounded set of inputs; pc tells the call from the *)
(* return, arg is the argument and ret the value returned.  The batch run does not *)
(* take part: its variables rest.                                          *)
(***************************************************************************)
RunRests ==
    /\ records = <<1>>
    /\ checkpoint_every = 0
    /\ idx = 1
    /\ status_by_pageid = <<>>
    /\ text = <<>>
    /\ base = 0
    /\ new_text = <<>>
    /\ successes_since_flush = 0
    /\ total_successes = 0
    /\ sheet = <<>>
    /\ calls = <<>>
    /\ writes = [loop |-> 0, end |-> 0]
    /\ written = <<>>
    /\ write_failed = FALSE
    /\ saved = {}
    /\ all_files = {}
    /\ params = <<>>

RunUnchanged ==
    UNCHANGED <<records, checkpoint_every, idx, status_by_pageid, text, base, new_text,
                successes_since_flush, total_successes, sheet, calls, writes, written,
                write_failed, saved, all_files, params>>

\* the sequences over S of length at most n
SeqsUpTo(S, n) == UNION {[1..k -> S] : k \in 0..n}

(***************************************************************************)
(* transform_wikitext on its own: applied to a page, then to its own       *)
(* output.  Pages are a core (no block, an old block in several layouts,   *)
(* a half block, two blocks, a block already replaced) between short runs  *)
(* of arbitrary tokens.                                                    *)
(***************************************************************************)
MaxBefore == 1
MaxAfter == 2

Filler == {SP, NL, COL, HDR, TXT("x"), IAT(GoodId), URL(GoodPdf)}

\* the old block with blank lines and blanks wherever \s* takes them, and no
\* line break after the URL
OldBlockLoose ==
    <<HDR, NL, NL, SP, COL, SP, IAT(GoodId), SP, NL, NL, COL, SP, URL(GoodPdf)>>

HalfBlock == <<HDR, NL, COL, IAT(GoodId), NL>>

Cores ==
    { <<>>, OldBlock(GoodId), OldBlockLoose, OldBlock(BadId), HalfBlock,
      OldBlock(GoodId) \o OldBlock(GoodId), transform_wikitext(OldBlock(GoodId)).text }

InitTransform ==
    /\ pc = "call_transform"
    /\ \E before \in SeqsUpTo(Filler, MaxBefore), core \in Cores,
          after \in SeqsUpTo(Filler, MaxAfter) : arg = before \o core \o after
    /\ ret = <<>>
    /\ RunRests

CallTransform ==
    /\ pc = "call_transform"
    /\ ret' = <<transform_wikitext(arg)>>
    /\ pc' = "transformed"
    /\ UNCHANGED arg
    /\ RunUnchanged

\* the output of a successful call is transformed once more
CallTransformAgain ==
    /\ pc = "transformed"
    /\ ret[1].ok
    /\ ret' = Append(ret, transform_wikitext(ret[1].text))
    /\ pc' = "transformed_again"
    /\ UNCHANGED arg
    /\ RunUnchanged

NextTransform ==
    \/ CallTransform
    \/ CallTransformAgain

SpecTransform == InitTransform /\ [][NextTransform]_vars

\* C11: transform_wikitext is idempotent: when it succeeds on a page with at
\* most one old block, its output holds no old block, and transforming the
\* output again returns the output unchanged.
C11_TransformIdempotent ==
    pc = "transformed_again" =>
        /\ OLD_BLOCK_RE(ret[1].text) = <<>>
        /\ ret[2] = [ok |-> TRUE, text |-> ret[1].text]

\* an old block was replaced by the first call, and the second call returned
C11_Witness ==
    /\ pc = "transformed_again"
    /\ Len(OLD_BLOCK_RE(arg)) = 1
    /\ ret[1].text # arg

\* the last token of the old block's third line: the line break that ends the
\* URL line, or the last token of the match when the text ends on that line
ThirdLineEnd(page, m) ==
    LET url == SetMax({k \in m.st..(m.en - 1) : page[k].t = "URL"})
        breaks == NLs(page, url + 1, m.en)
    IN  IF breaks = {} THEN m.en - 1
        ELSE CHOOSE k \in breaks : \A j \in breaks : k <= j

\* C12: on exactly one match the output is the text before the |source=
\* header, the header line verbatim, the replacement block, and the text
\* after the old block's three lines: the text that follows the block,
\* its whitespace and blank lines included, is left untouched.
C12_SurroundingTextUntouched ==
    (pc = "transformed" /\ Len(OLD_BLOCK_RE(arg)) = 1 /\ ret[1].ok) =>
        LET m == OLD_BLOCK_RE(arg)[1]
            new_block == build_new_source_block(Strip(m.iaid), Strip(m.pdf)).block
        IN  ret[1].text = SubSeq(arg, 1, m.prefixEnd) \o new_block \o <<NL>>
                          \o SubSeq(arg, ThirdLineEnd(arg, m) + 1, Len(arg))

(***************************************************************************)
(* derive_delpher_urn on its own, and in the processing of a record whose  *)
(* page holds the identifier.  Identifiers are what transform_wikitext     *)
(* passes on: the iaid group of OLD_BLOCK_RE, which holds no line break,   *)
(* stripped of surrounding whitespace.                                     *)
(***************************************************************************)
MaxIdLen == 6

IdChars == {"d", "0", "1", "_", " "}

\* the stripped strings of at most n characters
Identifiers(n) == {s \in SeqsUpTo(IdChars, n) : Strip(s) = s}

InitUrn ==
    /\ pc = "call_derive"
    /\ arg \in Identifiers(MaxIdLen)
    /\ ret = <<>>
    /\ RunRests

CallDeriveUrn ==
    /\ pc = "call_derive"
    /\ ret' = derive_delpher_urn(arg)
    /\ pc' = "derived"
    /\ UNCHANGED arg
    /\ RunUnchanged

\* the fetch of the record returns a page whose old block holds the identifier
FetchPageWith ==
    /\ pc = "derived"
    /\ LET fetched == fetch_wikitext_by_pageid([kind |-> "ok", text |-> OldBlock(arg), ts |-> 1])
       IN  /\ text' = fetched.text
           /\ base' = fetched.basetimestamp
           /\ calls' = <<Call("query", "ok", fetched.basetimestamp)>>
    /\ pc' = "transform"
    /\ UNCHANGED <<all_files, params, arg, ret, records, checkpoint_every, idx, status_by_pageid, new_text,
                   successes_since_flush, total_successes, sheet, writes, written,
                   write_failed, saved>>

NextUrn ==
    \/ CallDeriveUrn
    \/ FetchPageWith
    \/ Transform
    \/ Save
    \/ Retry

SpecUrn == InitUrn /\ [][NextUrn]_vars

\* s reads PREFIX "_" NUMBER, then nothing or "_" and a suffix: s[i] is the
\* first underscore and s[j] the last digit of NUMBER
IdShape(s, i, j) ==
    /\ 1 < i /\ i < j /\ j <= Len(s)
    /\ \A k \in 1..(i - 1) : s[k] \in Alnum
    /\ s[i] = "_"
    /\ \A k \in (i + 1)..j : s[k] \in Digits
    /\ j < Len(s) => s[j + 1] = "_"

HasIdShape(s) == \E i, j \in 1..Len(s) : IdShape(s, i, j)

\* C13: for every identifier PREFIX_NUMBER[_suffix] derive_delpher_urn
\* returns PREFIX ":" NUMBER, the number's leading zeros kept and the suffix
\* dropped.
C13_UrnIsPrefixColonNumber ==
    pc = "derived" =>
        \A i, j \in 1..Len(arg) :
            IdShape(arg, i, j) =>
                ret = [ok |-> TRUE,
                       urn |-> SubSeq(arg, 1, i - 1) \o <<":">> \o SubSeq(arg, i + 1, j)]

\* d_01_d: a number with a leading zero and a suffix
C13_Witness ==
    /\ pc = "derived"
    /\ arg = <<"d", "_", "0", "1", "_", "d">>
    /\ ret.urn = <<"d", ":", "0", "1">>

\* the page under transformation holds one old block, whose identifier has
\* not the shape PREFIX_NUMBER[_suffix]
BadIdUnderTransform ==
    /\ pc = "transform"
    /\ Len(OLD_BLOCK_RE(text)) = 1
    /\ ~HasIdShape(OLD_BLOCK_RE(text)[1].iaid)

MaxBlockIdLen == 3
MaxUrlLen == 3

UrlChars == {"ARC", "d", ".pdf", " "}

\* the stripped URLs of at most n pieces
Urls(n) == {s \in SeqsUpTo(UrlChars, n) : Strip(s) = s}

InitBlock ==
    /\ pc = "call_build"
    /\ \E i \in Identifiers(MaxBlockIdLen), u \in Urls(MaxUrlLen) :
          arg = [ia_id |-> i, pdf_url |-> u]
    /\ ret = <<>>
    /\ RunRests

CallBuildBlock ==
    /\ pc = "call_build"
    /\ ret' = build_new_source_block(arg.ia_id, arg.pdf_url)
    /\ pc' = "built"
    /\ UNCHANGED arg
    /\ RunUnchanged

NextBlock == CallBuildBlock

SpecBlock == InitBlock /\ [][NextBlock]_vars

\* the lines of a text: its tokens between the line breaks
RECURSIVE Lines(_)
Lines(t) ==
    LET breaks == NLs(t, 1, Len(t) + 1)
    IN  IF breaks = {} THEN <<t>>
        ELSE LET k == CHOOSE b \in breaks : \A c \in breaks : b <= c
             IN  <<SubSeq(t, 1, k - 1)>> \o Lines(SubSeq(t, k + 1, Len(t)))

\* u reads: scheme, host and "/download/", a non-empty path, ".pdf"
UrlShape(u) ==
    \E n \in 1..Len(u) :
        /\ Len(u) = n + 2
        /\ u[1] = "ARC"
        /\ \A k \in 2..(n + 1) : u[k] \in PathChars
        /\ u[n + 2] = ".pdf"

MaxPageId == 2
MaxRows == 3
MAX_FILES == 60000

Num(w, f) == [kind |-> "num", whole |-> w, frac |-> f]
BlankCell == [kind |-> "blank", whole |-> 0, frac |-> 0]
TextCell == [kind |-> "text", whole |-> 0, frac |-> 0]

CellValues == {BlankCell, TextCell} \cup {Num(w, f) : w \in (-1)..MaxPageId, f \in {0, 7}}

\* the sheets of at most n rows, and the files that cannot be loaded
Sheets(n) ==
    {[file |-> f, has_pageid_col |-> TRUE, cells |-> <<>>] : f \in {"missing", "unreadable"}}
    \cup {[file |-> "ok", has_pageid_col |-> FALSE, cells |-> <<>>]}
    \cup {[file |-> "ok", has_pageid_col |-> TRUE, cells |-> c] : c \in SeqsUpTo(CellValues, n)}

\* pd.to_numeric(raw_pid, errors="coerce") gives NaN for a cell that is no number
IsNaN(cell) == cell.kind # "num"

\* num_pid <= 0
NotPositive(cell) == cell.whole < 0 \/ (cell.whole = 0 /\ cell.frac = 0)

\* num_pid.astype(int) on a positive number: the fraction is cut off
AsInt(cell) == cell.whole

NoRecords == [ok |-> FALSE, records |-> <<>>, dup_count |-> 0]

\* faulty variant: of a repeated pageid the last row is kept
RECURSIVE DedupeKeepLast(_)
DedupeKeepLast(pageids) ==
    IF pageids = <<>> THEN [uniq |-> <<>>, dup_count |-> 0]
    ELSE LET rest == DedupeKeepLast(Tail(pageids))
         IN  IF \E k \in 2..Len(pageids) : pageids[k] = Head(pageids)
             THEN [rest EXCEPT !.dup_count = @ + 1]
             ELSE [rest EXCEPT !.uniq = <<Head(pageids)>> \o @]

\* the loop over records with seen, uniq and dup_count
RECURSIVE DedupeFrom(_, _, _)
DedupeFrom(pageids, uniq, dup_count) ==
    IF pageids = <<>> THEN [uniq |-> uniq, dup_count |-> dup_count]
    ELSE IF \E k \in 1..Len(uniq) : uniq[k] = Head(pageids)
         THEN DedupeFrom(Tail(pageids), uniq, dup_count + 1)
         ELSE DedupeFrom(Tail(pageids), Append(uniq, Head(pageids)), dup_count)

Dedupe(pageids) == DedupeFrom(pageids, <<>>, 0)

get_records(s) ==
    IF s.file # "ok" \/ ~s.has_pageid_col THEN NoRecords
    ELSE IF \E k \in 1..Len(s.cells) : IsNaN(s.cells[k]) \/ NotPositive(s.cells[k])
    THEN NoRecords
    ELSE LET pageids == [k \in 1..Len(s.cells) |-> AsInt(s.cells[k])]
             d == Dedupe(pageids)
         IN  IF d.uniq = <<>> \/ Len(d.uniq) > MAX_FILES THEN NoRecords
             ELSE [ok |-> TRUE, records |-> d.uniq, dup_count |-> d.dup_count]

InitRecords ==
    /\ pc = "call_get_records"
    /\ arg \in Sheets(MaxRows)
    /\ ret = <<>>
    /\ RunRests

CallGetRecords ==
    /\ pc = "call_get_records"
    /\ ret' = get_records(arg)
    /\ pc' = "loaded"
    /\ UNCHANGED arg
    /\ RunUnchanged

NextRecords == CallGetRecords

SpecRecords == InitRecords /\ [][NextRecords]_vars

\* the cell holds a positive integer
IsPageId(cell) == cell.kind = "num" /\ cell.whole > 0 /\ cell.frac = 0

\* the first row of the sheet that holds pageid p
FirstRow(cells, p) ==
    CHOOSE k \in 1..Len(cells) :
        /\ cells[k].whole = p
        /\ \A j \in 1..(k - 1) : cells[j].whole # p

\* C16: for a sheet whose Pageid cells are all positive integers, get_records
\* succeeds and returns every pageid of the sheet once, in the order of the
\* first occurrences, and reports the number of rows it dropped.
C16_UniqueInFirstOccurrenceOrder ==
    (/\ pc = "loaded"
     /\ arg.file = "ok" /\ arg.has_pageid_col /\ arg.cells # <<>>
     /\ \A k \in 1..Len(arg.cells) : IsPageId(arg.cells[k])) =>
        LET r == ret.records
        IN  /\ ret.ok
            /\ {r[a] : a \in 1..Len(r)} = {arg.cells[k].whole : k \in 1..Len(arg.cells)}
            /\ \A a, b \in 1..Len(r) :
                  a < b => FirstRow(arg.cells, r[a]) < FirstRow(arg.cells, r[b])
            /\ ret.dup_count = Len(arg.cells) - Len(r)

\* the sheet 2, 2, 1 is loaded as 2, 1 with one duplicate reported
C16_Witness ==
    /\ pc = "loaded"
    /\ arg.cells = <<Num(2, 0), Num(2, 0), Num(1, 0)>>
    /\ ret = [ok |-> TRUE, records |-> <<2, 1>>, dup_count |-> 1]

\* C17: get_records fails and returns no worklist whenever a cell of the
\* Pageid column is not a positive integer: blank, text, zero, negative, or a
\* number with a fractional part.
C17_NonIntegerCellFails ==
    (pc = "loaded" /\ \E k \in 1..Len(arg.cells) : ~IsPageId(arg.cells[k])) =>
        ret = NoRecords

(***************************************************************************)
(* apply_slice_records on its own.  HEAD is the integer read from the      *)
(* environment (0 when the variable is absent), RANGE the string read from *)
(* it.  The result is [ok, records, err]; ok = FALSE is SystemExit, err    *)
(* the message logged before it.  The worklists are those get_records      *)
(* returns: pageids without repetition, at least one.                      *)
(***************************************************************************)
MaxRangeLen == 3

DecimalDigits == <<"0", "1", "2", "3", "4", "5", "6", "7", "8", "9">>
RangeChars == {"0", "1", "2", "3", "4", "-", ":", " "}

IsDigit(c) == \E k \in DOMAIN DecimalDigits : DecimalDigits[k] = c
DigitValue(c) == (CHOOSE k \in DOMAIN DecimalDigits : DecimalDigits[k] = c) - 1

\* int() of a run of decimal digits
RECURSIVE ToInt(_)
ToInt(ds) ==
    IF ds = <<>> THEN 0
    ELSE 10 * ToInt(SubSeq(ds, 1, Len(ds) - 1)) + DigitValue(ds[Len(ds)])

\* re.match(r"^\s*(\d+)\s*[-:]\s*(\d+)\s*$", RANGE)
ParseRange(r) ==
    LET ds == {DecimalDigits[k] : k \in DOMAIN DecimalDigits}
        a1 == SkipChars(r, 1, Blank)
        a2 == SkipChars(r, a1, ds)
        sep == SkipChars(r, a2, Blank)
        b1 == SkipChars(r, sep + 1, Blank)
        b2 == SkipChars(r, b1, ds)
        e == SkipChars(r, b2, Blank)
    IN  IF /\ a2 > a1
           /\ sep <= Len(r) /\ r[sep] \in {"-", ":"}
           /\ b2 > b1
           /\ e = Len(r) + 1
        THEN [ok |-> TRUE, start |-> ToInt(SubSeq(r, a1, a2 - 1)),
              end |-> ToInt(SubSeq(r, b1, b2 - 1))]
        ELSE [ok |-> FALSE, start |-> 0, end |-> 0]

Min(a, b) == IF a < b THEN a ELSE b

\* faulty variant: the span is taken from position i + 1 on, end excluded
PySliceShifted(s, i, j) == SubSeq(s, i + 2, Min(j + 1, Len(s)))

\* s[i:j] for 0 <= i: a slice never fails, it stops at the end of s
PySlice(s, i, j) == SubSeq(s, i + 1, Min(j, Len(s)))

\* faulty variant: a HEAD beyond the worklist is left to the slice
HeadOutOfRangeNever(n, len) == FALSE

HeadOutOfRange(n, len) == n < 1 \/ n > len

\* faulty variant: when both are set RANGE wins
BothSetNever(has_range, has_head) == FALSE

BothSet(has_range, has_head) == has_range /\ has_head

SliceFails(msg) == [ok |-> FALSE, records |-> <<>>, err |-> msg]
SliceReturns(recs) == [ok |-> TRUE, records |-> recs, err |-> ""]

apply_slice_records(recs, HEAD, RANGE) ==
    LET len == Len(recs)
        has_range == Strip(RANGE) # <<>>
        has_head == HEAD > 0
        m == ParseRange(RANGE)
    IN  IF len = 0 THEN SliceReturns(recs)
        ELSE IF BothSet(has_range, has_head) THEN SliceFails("both RANGE and HEAD are set")
        ELSE IF has_range
        THEN IF ~m.ok THEN SliceFails("RANGE must be in the form N-M")
             ELSE IF m.start < 1 \/ m.end < m.start THEN SliceFails("invalid RANGE values")
             ELSE IF m.start > len \/ m.end > len THEN SliceFails("RANGE out of bounds")
             ELSE SliceReturns(PySlice(recs, m.start - 1, m.end))
        ELSE IF has_head
        THEN IF HeadOutOfRange(HEAD, len) THEN SliceFails("HEAD must be between 1 and len")
             ELSE SliceReturns(PySlice(recs, 0, HEAD))
        ELSE SliceReturns(recs)

InitSlice ==
    /\ pc = "call_slice"
    /\ \E w \in Worklists, h \in (-1)..(MaxRecords + 1),
          r \in SeqsUpTo(RangeChars, MaxRangeLen) :
             arg = [records |-> w, HEAD |-> h, RANGE |-> r]
    /\ ret = <<>>
    /\ RunRests

CallSlice ==
    /\ pc = "call_slice"
    /\ ret' = apply_slice_records(arg.records, arg.HEAD, arg.RANGE)
    /\ pc' = "sliced"
    /\ UNCHANGED arg
    /\ RunUnchanged

NextSlice == CallSlice

SpecSlice == InitSlice /\ [][NextSlice]_vars

\* r reads "a-b" or "a:b" for the one-digit numbers a and b
RangeReads(r, a, b) ==
    \E sep \in {"-", ":"} : r = <<DecimalDigits[a + 1], sep, DecimalDigits[b + 1]>>

\* positions a..b of s, in order
Span(s, a, b) == [k \in 1..(b - a + 1) |-> s[a + k - 1]]

NoRange == Strip(arg.RANGE) = <<>>

\* C18: apply_slice_records returns a contiguous part of the worklist in its
\* order: all of it when no mode is set, the first n records for HEAD = n
\* with 1 <= n <= len, positions a..b inclusive for RANGE a-b with
\* 1 <= a <= b <= len.
C18_SliceIsRequestedSpan ==
    pc = "sliced" =>
        LET recs == arg.records
            len == Len(recs)
        IN  /\ (arg.HEAD = 0 /\ NoRange) => ret = SliceReturns(recs)
            /\ (arg.HEAD \in 1..len /\ NoRange) => ret = SliceReturns(Span(recs, 1, arg.HEAD))
            /\ \A a, b \in 1..len :
                  (a <= b /\ arg.HEAD = 0 /\ RangeReads(arg.RANGE, a, b)) =>
                      ret = SliceReturns(Span(recs, a, b))

\* RANGE 2-3 on the worklist 3, 2, 1 gives 2, 1
C18_Witness ==
    /\ pc = "sliced"
    /\ arg = [records |-> <<3, 2, 1>>, HEAD |-> 0, RANGE |-> <<"2", "-", "3">>]
    /\ ret.records = <<2, 1>>

MaxMainRows == 2

\* the cells of the Pageid column: blank, 1, 2, 0 and 0.7
MainCells == {BlankCell, Num(1, 0), Num(2, 0), Num(0, 0), Num(0, 7)}

MainSheets(n) ==
    {[file |-> "missing", has_pageid_col |-> TRUE, cells |-> <<>>],
     [file |-> "ok", has_pageid_col |-> FALSE, cells |-> <<>>]}
    \cup {[file |-> "ok", has_pageid_col |-> TRUE, cells |-> c] : c \in SeqsUpTo(MainCells, n)}

\* RANGE: unset, one row, both rows, start after end, start 0, end beyond
\* the rows, no number
MainRanges ==
    {<<>>, <<"1", "-", "1">>, <<"1", "-", "2">>, <<"2", "-", "1">>, <<"0", "-", "1">>,
     <<"1", "-", "4">>, <<"-">>}

InitMain ==
    /\ pc = "get_records"
    /\ \E s \in MainSheets(MaxMainRows), h \in (-1)..(MaxMainRows + 1), r \in MainRanges :
          /\ arg = [sheet |-> s, HEAD |-> h, RANGE |-> r]
          /\ sheet = [k \in DOMAIN s.cells |-> [pageid |-> s.cells[k].whole, status |-> ""]]
    /\ records = <<>>
    /\ checkpoint_every = 0
    /\ idx = 1
    /\ status_by_pageid = <<>>
    /\ text = <<>>
    /\ base = 0
    /\ new_text = <<>>
    /\ successes_since_flush = 0
    /\ total_successes = 0
    /\ calls = <<>>
    /\ writes = [loop |-> 0, end |-> 0]
    /\ written = <<>>
    /\ write_failed = FALSE
    /\ saved = {}
    /\ ret = <<>>
    /\ all_files = {}
    /\ params = <<>>

\* main: records = get_records()
LoadRecords ==
    /\ pc = "get_records"
    /\ LET r == get_records(arg.sheet)
       IN  IF r.ok THEN records' = r.records /\ pc' = "slice"
           ELSE pc' = "config_error" /\ UNCHANGED records
    /\ UNCHANGED <<all_files, params, arg, ret, checkpoint_every, idx, status_by_pageid, text,
                   base, new_text, successes_since_flush, total_successes, sheet, calls,
                   writes, written, write_failed, saved>>

\* main: records = apply_slice_records(records); if not records: SystemExit
SliceRecords ==
    /\ pc = "slice"
    /\ LET s == apply_slice_records(records, arg.HEAD, arg.RANGE)
       IN  IF s.ok /\ s.records # <<>> THEN records' = s.records /\ pc' = "login"
           ELSE pc' = "config_error" /\ UNCHANGED records
    /\ UNCHANGED <<all_files, params, arg, ret, checkpoint_every, idx, status_by_pageid, text,
                   base, new_text, successes_since_flush, total_successes, sheet, calls,
                   writes, written, write_failed, saved>>

\* process_records, head of the loop body: a pageid that is no positive
\* integer ends the run with SystemExit
RejectRecord ==
    /\ pc = "fetch"
    /\ pid <= 0
    /\ status_by_pageid' = Put(status_by_pageid, -1, STATUS_ERROR)
    /\ pc' = "config_error"
    /\ UNCHANGED <<all_files, params, arg, ret, records, checkpoint_every, idx, text, base,
                   new_text, successes_since_flush, total_successes, sheet, calls, writes,
                   written, write_failed, saved>>

FetchRecord == pc = "fetch" /\ pid > 0 /\ Fetch

\* write_status_to_excel: the cast of the Pageid column to Int64 raises on a
\* cell with a fractional part, before anything is written
HasFraction(s) == \E k \in DOMAIN s.cells : s.cells[k].frac # 0

MainWriteBack ==
    IF HasFraction(arg.sheet)
    THEN /\ pc = "main_write"
         /\ pc' = "aborted"
         /\ write_failed' = TRUE
         /\ written' = status_by_pageid
         /\ writes' = [writes EXCEPT !.end = @ + 1]
         /\ UNCHANGED <<all_files, params, arg, ret, records, checkpoint_every, idx,
                        status_by_pageid, text, base, new_text, successes_since_flush,
                        total_successes, sheet, calls, saved>>
    ELSE MainWrite

NextMain ==
    \/ LoadRecords
    \/ SliceRecords
    \/ Login
    \/ RejectRecord
    \/ FetchRecord
    \/ Transform
    \/ Save
    \/ Retry
    \/ FinalFlush
    \/ MainWriteBack

SpecMain == InitMain /\ [][NextMain]_vars

\* C21: every configuration error (missing pageid column, invalid pageid
\* values, conflicting slice modes, out-of-range slice bounds) stops the
\* run before any remote call: the run ends with a configuration error only
\* from get_records or apply_slice_records, before the login, with no page
\* fetched and no edit accepted.
C21_ConfigErrorBeforeRemoteCalls ==
    [][pc' = "config_error" =>
          /\ pc \in {"get_records", "slice"}
          /\ calls = <<>>
          /\ saved = {}]_vars

(***************************************************************************)
(* write_status_to_excel on its own.  arg is the sheet before the call and *)
(* the status map; sheet is the persisted sheet, rows [pageid, status,     *)
(* title], pageid 0 standing for a cell that is no number; ret keeps the   *)
(* sheet as the first call left it.  With an empty map the function        *)
(* returns before it touches the file, so it cannot fail.                  *)
(***************************************************************************)
MaxSheetRows == 2

SheetRows ==
    [pageid : 0..MaxPageId, status : {"", STATUS_SKIPPED_NO_OLD}, title : {"a", "b"}]

StatusMaps(n) ==
    UNION {[K -> {STATUS_PROCESSED, STATUS_ERROR}] : K \in SUBSET (1..n)}

InitWrite ==
    /\ pc = "call_write"
    /\ \E rows \in SeqsUpTo(SheetRows, MaxSheetRows), status \in StatusMaps(MaxPageId) :
          /\ arg = [rows |-> rows, status |-> status]
          /\ sheet = rows
    /\ ret = <<>>
    /\ records = <<1>>
    /\ checkpoint_every = 0
    /\ idx = 1
    /\ status_by_pageid = <<>>
    /\ text = <<>>
    /\ base = 0
    /\ new_text = <<>>
    /\ successes_since_flush = 0
    /\ total_successes = 0
    /\ calls = <<>>
    /\ writes = [loop |-> 0, end |-> 0]
    /\ written = <<>>
    /\ write_failed = FALSE
    /\ saved = {}
    /\ all_files = {}
    /\ params = <<>>

WriteUnchanged ==
    UNCHANGED <<all_files, params, arg, records, checkpoint_every, idx, status_by_pageid, text,
                base, new_text, successes_since_flush, total_successes, calls, writes,
                written, write_failed, saved>>

\* what a call can end with
WriteEnds(status) == IF DOMAIN status = {} THEN {"ok"} ELSE WriteOutcomes

CallWrite ==
    /\ pc = "call_write"
    /\ \E w \in WriteEnds(arg.status) :
          IF w = "ok"
          THEN /\ sheet' = write_status_to_excel(sheet, arg.status)
               /\ ret' = sheet'
               /\ pc' = "written_once"
          ELSE /\ pc' = "write_raised"
               /\ UNCHANGED <<sheet, ret>>
    /\ WriteUnchanged

CallWriteAgain ==
    /\ pc = "written_once"
    /\ \E w \in WriteEnds(arg.status) :
          IF w = "ok"
          THEN /\ sheet' = write_status_to_excel(sheet, arg.status)
               /\ pc' = "written_twice"
          ELSE /\ pc' = "write_raised_again"
               /\ UNCHANGED sheet
    /\ UNCHANGED ret
    /\ WriteUnchanged

NextWrite ==
    \/ CallWrite
    \/ CallWriteAgain

SpecWrite == InitWrite /\ [][NextWrite]_vars

\* C22: write_status_to_excel is idempotent: after two calls in a row with
\* the same status map the persisted sheet is what the first call left, also
\* when the second call fails.
C22_WriteIdempotent ==
    pc \in {"written_twice", "write_raised_again"} => sheet = ret

\* two calls with a map that changed a row of the sheet
C22_Witness ==
    /\ pc = "written_twice"
    /\ sheet = ret
    /\ sheet # arg.rows
    /\ \E i \in DOMAIN sheet : arg.rows[i].status # "" /\ sheet[i].status = STATUS_ERROR

\* C23: write_status_to_excel gives each status to the rows whose pageid
\* cell equals the key, wherever the rows stand: every row with a pageid of
\* the map ends with the status mapped to that pageid, and on the rows in
\* any other order the call gives the same rows in that order.
C23_StatusFollowsPageid ==
    pc = "written_once" =>
        /\ DOMAIN sheet = DOMAIN arg.rows
        /\ \A i \in DOMAIN sheet :
              arg.rows[i].pageid \in DOMAIN arg.status =>
                  sheet[i].status = arg.status[arg.rows[i].pageid]
        /\ \A p \in Permutations(DOMAIN arg.rows) :
              write_status_to_excel([i \in DOMAIN arg.rows |-> arg.rows[p[i]]], arg.status)
                 = [i \in DOMAIN sheet |-> sheet[p[i]]]

\* the row of pageid 2 stands first, the row of pageid 1 second, and each
\* has received its own status
C23_Witness ==
    /\ pc = "written_once"
    /\ Len(sheet) = 2
    /\ sheet[1].pageid = 2 /\ sheet[2].pageid = 1
    /\ arg.status = (1 :> STATUS_ERROR) @@ (2 :> STATUS_PROCESSED)
    /\ sheet[1].status = STATUS_PROCESSED /\ sheet[2].status = STATUS_ERROR

C24_FetchFailureGoesToError ==
    [][pc = "fetch" =>
          IF pc' = "transform"
          THEN /\ text' # <<>>
               /\ base' # 0
               /\ calls' = <<Call("query", "ok", base')>>
               /\ UNCHANGED <<idx, status_by_pageid>>
          ELSE /\ OnlyThisRecordGets(STATUS_ERROR)
               /\ calls' = <<Call("query", "fail", 0)>>
               /\ UNCHANGED <<text, base, new_text, saved, total_successes,
                              successes_since_flush, sheet>>
               /\ \/ idx < total /\ idx' = idx + 1 /\ pc' = "fetch"
                  \/ idx = total /\ idx' = idx /\ pc' = "final_flush"]_vars

\* the fetch of the first record has failed: the record has the error status
\* and the loop stands at the fetch of the second record
C24_Witness ==
    /\ pc = "fetch"
    /\ idx = 2
    /\ calls = <<[op |-> "query", pageid |-> records[1], res |-> "fail", basetimestamp |-> 0]>>
    /\ status_by_pageid = (records[1] :> STATUS_ERROR)
    /\ saved = {}

\* C25 (as claimed): when process_records has returned, a record is labelled
\* 'Successfully processed' exactly when its page was saved, and a record
\* whose page was saved is never labelled 'Skipped - other error'.
C25_LabelMatchesOutcome ==
    Returned =>
        \A p \in DOMAIN status_by_pageid :
            /\ status_by_pageid[p] = STATUS_PROCESSED <=> p \in saved
            /\ p \in saved => status_by_pageid[p] # STATUS_ERROR

\* C26: when main has completed normally, every record of the worklist has
\* a row in the persisted sheet, and every such row holds the final status
\* of its record, also when no page was saved in the run.
C26_StatusesPersistedAtEnd ==
    pc = "done" =>
        /\ \A p \in RecordIds : \E i \in DOMAIN sheet : sheet[i].pageid = p
        /\ \A i \in DOMAIN sheet :
              sheet[i].pageid \in RecordIds =>
                  /\ sheet[i].pageid \in DOMAIN status_by_pageid
                  /\ sheet[i].status = status_by_pageid[sheet[i].pageid]
                  /\ sheet[i].status \in Statuses

\* a run of two records has completed without a single save: the sheet holds
\* the error status of the one and the skip status of the other
C26_Witness ==
    /\ pc = "done"
    /\ total_successes = 0
    /\ saved = {}
    /\ Len(records) = 2
    /\ sheet[1].status = STATUS_ERROR
    /\ sheet[2].status = STATUS_SKIPPED_NO_OLD

(***************************************************************************)
(* addDelpherTemplateToWikitext.py: process_files.  A page text is a       *)
(* sequence of pieces: the template {{Delpher}}, the category link that    *)
(* OLD_PATTERN matches, and other text.  arg is file_titles; idx, text and *)
(* new_text are the locals of the loop, calls the save requests of the     *)
(* current title and saved the titles whose save the wiki accepted.        *)
(***************************************************************************)
MaxTitles == 2
MaxTextLen == 3

DELPHER == "{{Delpher}}"
CATEGORY == "[[Category:Media from Delpher]]"
NEW_PATTERN == <<>>

TemplateTexts(n) == SeqsUpTo({DELPHER, CATEGORY, "x"}, n)

\* the lists of distinct titles 1..k in some order
TitleLists(n) ==
    UNION {{t \in [1..k -> 1..k] : \A i, j \in 1..k : t[i] = t[j] => i = j} : k \in 0..n}

\* text.count("{{Delpher}}")
CountDelpher(t) == Cardinality({k \in DOMAIN t : t[k] = DELPHER})

has_multiple_delpher(t, limit) == CountDelpher(t) > limit

OLD_PATTERN_search(t) == \E k \in DOMAIN t : t[k] = CATEGORY

\* OLD_PATTERN.sub(NEW_PATTERN, text): every match is replaced
RECURSIVE OLD_PATTERN_sub(_, _)
OLD_PATTERN_sub(repl, t) ==
    IF t = <<>> THEN <<>>
    ELSE (IF Head(t) = CATEGORY THEN repl ELSE <<Head(t)>>) \o OLD_PATTERN_sub(repl, Tail(t))

\* what page.text() and page.save() end with
PageReads(n) ==
    {[ok |-> FALSE, text |-> <<>>]} \cup {[ok |-> TRUE, text |-> t] : t \in TemplateTexts(n)}
SaveOutcomes == {"ok", "apierror", "exception"}

InitFiles ==
    /\ pc = "process_files"
    /\ arg \in TitleLists(MaxTitles)
    /\ ret = <<>>
    /\ RunRests

FilesUnchanged ==
    UNCHANGED <<all_files, params, arg, ret, records, checkpoint_every, status_by_pageid, base,
                successes_since_flush, total_successes, sheet, writes, written, write_failed>>

\* "if not file_titles: return"
EnterFiles ==
    /\ pc = "process_files"
    /\ pc' = IF arg = <<>> THEN "files_done" ELSE "process_file"
    /\ UNCHANGED <<idx, text, new_text, calls, saved>>
    /\ FilesUnchanged

\* one pass of the loop body
ProcessFile ==
    /\ pc = "process_file"
    /\ \E page \in PageReads(MaxTextLen) :
          IF ~page.ok
          THEN /\ calls' = <<>>
               /\ UNCHANGED <<text, new_text, saved>>
          ELSE /\ text' = page.text
               /\ IF has_multiple_delpher(page.text, 2)
                  THEN /\ calls' = <<>>
                       /\ UNCHANGED <<new_text, saved>>
                  ELSE IF OLD_PATTERN_search(page.text)
                  THEN /\ new_text' = OLD_PATTERN_sub(NEW_PATTERN, page.text)
                       /\ \E r \in SaveOutcomes :
                             /\ calls' = <<[op |-> "save", title |-> arg[idx],
                                            text |-> new_text', res |-> r]>>
                             /\ saved' = IF r = "ok" THEN saved \cup {arg[idx]} ELSE saved
                  ELSE /\ calls' = <<>>
                       /\ UNCHANGED <<new_text, saved>>
    /\ IF idx < Len(arg) THEN idx' = idx + 1 /\ pc' = pc
       ELSE idx' = idx /\ pc' = "files_done"
    /\ FilesUnchanged

NextFiles ==
    \/ EnterFiles
    \/ ProcessFile

SpecFiles == InitFiles /\ [][NextFiles]_vars

\* C28 (as claimed): process_files never edits a page that already holds the
\* template {{Delpher}}: when the text read holds it once or more, the page
\* is skipped, no save request is issued and no page is saved.
C28_PageWithTemplateSkipped ==
    [][(pc = "process_file" /\ CountDelpher(text') >= 1) =>
          /\ calls' = <<>>
          /\ saved' = saved]_vars

(***************************************************************************)
(* addDelpherTemplateToWikitext.py: get_files.  The script's MAX_FILES     *)
(* (60000) and the srlimit of SEARCH_PARAMS (500) are scaled down to       *)
(* TemplateMaxFiles and SrLimit; titles are the numbers 1..MaxPool and the *)
(* sroffset of a 'continue' marker is one of 1..MaxOffset.  The server     *)
(* answers a request with at most srlimit titles, any titles, with or      *)
(* without a 'continue' marker, or the request fails.  all_files and       *)
(* params are the locals; ret is the list returned.                        *)
(***************************************************************************)
TemplateMaxFiles == 3
SrLimit == 2
MaxPool == 4
MaxOffset == 2

\* faulty variant: the limit of SEARCH_PARAMS is sent unchanged
SearchLimitFixed(collected) == SrLimit

\* min(SEARCH_PARAMS["srlimit"], MAX_FILES - len(all_files))
SearchLimit(collected) == Min(SrLimit, TemplateMaxFiles - collected)

\* the answers to a request for at most srlimit results
SearchResponses(srlimit) ==
    {[kind |-> "error", titles |-> {}, continue |-> 0]}
    \cup {[kind |-> "ok", titles |-> t, continue |-> c] :
             t \in {s \in SUBSET (1..MaxPool) : Cardinality(s) <= srlimit}, c \in 0..MaxOffset}

\* list(all_files): the titles once each, in some order
ListsOf(S) ==
    {l \in [1..Cardinality(S) -> S] : \A i, j \in DOMAIN l : l[i] = l[j] => i = j}

InitSearch ==
    /\ pc = "get_files"
    /\ all_files = {}
    /\ params = [srlimit |-> SrLimit, sroffset |-> 0]
    /\ arg = <<>>
    /\ ret = <<>>
    /\ records = <<1>>
    /\ checkpoint_every = 0
    /\ idx = 1
    /\ status_by_pageid = <<>>
    /\ text = <<>>
    /\ base = 0
    /\ new_text = <<>>
    /\ successes_since_flush = 0
    /\ total_successes = 0
    /\ sheet = <<>>
    /\ calls = <<>>
    /\ writes = [loop |-> 0, end |-> 0]
    /\ written = <<>>
    /\ write_failed = FALSE
    /\ saved = {}

\* the return after the loop
ReturnFiles(files) == \E l \in ListsOf(files) : ret' = l /\ pc' = "returned"

\* the while test and one pass of the loop body
SearchPage ==
    /\ pc = "get_files"
    /\ IF Cardinality(all_files) >= TemplateMaxFiles
       THEN /\ ReturnFiles(all_files)
            /\ UNCHANGED <<all_files, params>>
       ELSE LET srlimit == SearchLimit(Cardinality(all_files))
            IN  \E data \in SearchResponses(srlimit) :
                   IF data.kind = "error"
                   THEN /\ ret' = <<>>
                        /\ pc' = "returned"
                        /\ params' = [params EXCEPT !.srlimit = srlimit]
                        /\ UNCHANGED all_files
                   ELSE /\ all_files' = all_files \cup data.titles
                        /\ IF Cardinality(all_files') >= TemplateMaxFiles \/ data.continue = 0
                           THEN /\ ReturnFiles(all_files')
                                /\ params' = [params EXCEPT !.srlimit = srlimit]
                           ELSE /\ params' = [srlimit |-> srlimit, sroffset |-> data.continue]
                                /\ UNCHANGED <<pc, ret>>
    /\ UNCHANGED <<arg, records, checkpoint_every, idx, status_by_pageid, text, base, new_text,
                   successes_since_flush, total_successes, sheet, calls, writes, written,
                   write_failed, saved>>

NextSearch == SearchPage

SpecSearch == InitSearch /\ [][NextSearch]_vars

\* the loop is never held back while it can take a step
SpecSearchFair == SpecSearch /\ WF_vars(NextSearch)

\* C29: get_files never collects more than MAX_FILES titles: the set of
\* collected titles has at most MAX_FILES members after every page of
\* results, and the list returned has no title twice and at most MAX_FILES
\* entries.
C29_AtMostMaxFiles ==
    /\ Cardinality(all_files) <= TemplateMaxFiles
    /\ pc = "returned" =>
          /\ Len(ret) <= TemplateMaxFiles
          /\ \A i, j \in DOMAIN ret : ret[i] = ret[j] => i = j
          /\ {ret[i] : i \in DOMAIN ret} \subseteq all_files

\* MAX_FILES titles were returned, the last request asking for the one title
\* that was still missing
C29_Witness ==
    /\ pc = "returned"
    /\ Len(ret) = TemplateMaxFiles
    /\ Cardinality(all_files) = TemplateMaxFiles
    /\ params.srlimit = 1
    /\ params.sroffset # 0

\* C30 (as claimed): the paging loop of get_files terminates for every
\* sequence of server responses.
C30_GetFilesTerminates == <>(pc = "returned")
====
